---- MODULE Spec2Model ----
(***************************************************************************)
(* gemmi prep: monomer resolution with fallback synthesis, and automatic   *)
(* covalent link detection.                                                *)
(*                                                                         *)
(* Two revisions of the program are in the repository and both are         *)
(* modelled, selected by the variable `variant`:                           *)
(*   "prog"  src/prog/prep.cpp  (--lib, --low, add_automatic_links)         *)
(*   "src"   src/src/prep.cpp   (--libin, assign_connections)               *)
(*                                                                         *)
(* Lengths are integers in units of 0.5 Angstrom, so that the 0.5 margin   *)
(* of the link threshold is 1, the contact cutoff 3.5 is 7 and the search  *)
(* radius 5.0 is 10.  Geometry is one-dimensional and periodic.            *)
(***************************************************************************)
EXTENDS Integers, Sequences, FiniteSets, TLC

VARIABLES
  variant,      \* which revision of prep.cpp runs
  input,        \* the options libs, lows, autoLigand, autoLink and conns,
                \* the connections read from the input file
  clibd,        \* residue names the installed monomer library can provide
  model0,       \* st.models[0]: sequence of chains
  monomers,     \* monlib.monomers: function name -> definition
  needed,       \* the vector `needed` (prog) / `resnames` (src)
  queried,      \* the name list last passed to read_monomer_lib
  ok,           \* result of read_monomer_lib
  error,        \* names mentioned in the error string of read_monomer_lib
  printed,      \* diagnostics written so far: set of <<kind, name>>
  idx,          \* position of the loop the program is in
  connections,  \* st.connections
  contacts,     \* contacts for_each_contact has not yet handed to the callback
  counter,      \* the callback's link counter
  pass,         \* number of link detection passes started
  pc,           \* position of the program
  exitCode,     \* return value of main, -1 while running
  written,      \* whether the output file was written
  query,        \* argument of find_most_complete_residue in the function check
  found         \* its result

vars == <<variant, input, clibd, model0, monomers, needed, queried, ok, error,
          printed, idx, connections, contacts, counter, pass, pc, exitCode,
          written, query, found>>

----------------------------------------------------------------------------
(* Bounds of the model *)

\* total number of --lib / --low options on the command line
MaxLibOpts == 2
\* residues of the chain in the models of the whole-program specification
MaxRes == 3
\* atom positions are 0 .. MaxPos in the link detection specification
MaxPos == 9
\* link detection passes in the link detection specification
MaxPasses == 2
\* residues of the model and atoms per residue in the template selection
\* specification
MaxFindRes == 3
MaxAtoms == 2

(* Program constants, in units of 0.5 Angstrom *)
SearchRadius == 10
ContactCutoff == 7
Margin == 1

\* residue names
Names == {"ALA", "LIG", "XYZ"}
\* names the installed monomer library may define
InstalledNames == {"ALA", "LIG"}
\* user library files; "+" is the structure document itself
UserFiles == {"a.cif", "+"}
\* covalent radii of the elements in the link detection specification
\* (0.5 and 2.0 Angstrom)
Radii == {1, 4}
\* length of the periodic cell
CellLen == 2 * MaxPos - 1

----------------------------------------------------------------------------
(* Helpers *)

SeqsUpTo(S, lo, hi) == UNION {[1..k -> S] : k \in lo..hi}

Sq(x) == x * x

Abs(x) == IF x < 0 THEN -x ELSE x

RECURSIVE Flatten(_)
Flatten(ss) == IF ss = <<>> THEN <<>> ELSE Head(ss) \o Flatten(Tail(ss))

RECURSIVE Dedup(_)
Dedup(s) ==
  IF s = <<>> THEN <<>>
  ELSE LET init == Dedup(SubSeq(s, 1, Len(s) - 1))
           last == s[Len(s)]
       IN IF \E i \in 1..Len(init) : init[i] = last THEN init
          ELSE Append(init, last)

Range(s) == {s[i] : i \in 1..Len(s)}

----------------------------------------------------------------------------
(* The structure: Model > Chain > Residue > Atom *)

ChainNames == <<"A", "B", "C", "D">>
AtomNames == <<"C1", "C2", "C3", "C4">>

Atom(name, r, pos) == [name |-> name, r |-> r, pos |-> pos]

Residue(name, seqid, atoms) == [name |-> name, seqid |-> seqid, atoms |-> atoms]

Chain(name, residues) == [name |-> name, residues |-> residues]

\* places of the residues, in the order `for chain : chains, for residue :
\* chain.residues` visits them; a place stands for a Residue pointer
ResidueLocs(model) ==
  Flatten([ci \in 1..Len(model) |->
             [ri \in 1..Len(model[ci].residues) |-> <<ci, ri>>]])

NullLoc == <<0, 0>>

ResAt(model, loc) == model[loc[1]].residues[loc[2]]

\* Model::get_all_residue_names: distinct names in order of first occurrence
AllResidueNames(model) ==
  LET locs == ResidueLocs(model)
  IN Dedup([i \in 1..Len(locs) |-> ResAt(model, locs[i]).name])

----------------------------------------------------------------------------
(* find_most_complete_residue *)

MoreCompleteOrEqual(residue, r) == Len(residue.atoms) >= Len(r.atoms)

\* residue.atoms.size() > r->atoms.size()
MoreComplete(residue, r) == Len(residue.atoms) > Len(r.atoms)

\* the loop, from the residues still to visit and the current value of r
RECURSIVE FindFrom(_, _, _, _)
FindFrom(name, model, locs, r) ==
  IF locs = <<>> THEN r
  ELSE LET residue == ResAt(model, Head(locs))
           take == /\ residue.name = name
                   /\ (r = NullLoc \/ MoreComplete(residue, ResAt(model, r)))
       IN FindFrom(name, model, Tail(locs), IF take THEN Head(locs) ELSE r)

find_most_complete_residue(name, model) ==
  FindFrom(name, model, ResidueLocs(model), NullLoc)

----------------------------------------------------------------------------
(* The monomer library *)

\* a definition, tagged with where it came from: <<"lib", file>>, <<"low", file>>,
\* <<"installed", "">> or <<"adhoc", "">>; tmpl is the place of the residue an
\* ad-hoc definition was derived from
Def(name, from, tmpl) == [name |-> name, from |-> from, tmpl |-> tmpl]

\* names defined in each user library file
FileDefs(file) == IF file = "a.cif" THEN {"LIG"} ELSE {"LIG", "XYZ"}

\* std::map::emplace: inserts unless the key is present
Emplace(m, name, def) ==
  [n \in DOMAIN m \cup {name} |-> IF n \in DOMAIN m THEN m[n] ELSE def]

\* MonLib::read_monomer_cif / read_monomer_doc: every definition of the file
\* is inserted under its name; an existing entry is kept
ReadMonomerDoc(m, kind, file) ==
  [n \in DOMAIN m \cup FileDefs(file) |->
     IF n \in DOMAIN m THEN m[n] ELSE Def(n, <<kind, file>>, NullLoc)]

\* MonLib::read_monomer_lib: for each requested name not yet present, the
\* definition of the installed library is inserted; a name the library cannot
\* provide goes to the error string and makes the result false
MonomerLibErrors(m, names, lib) ==
  {n \in Range(names) : n \notin DOMAIN m /\ n \notin lib}

ReadMonomerLib(m, names, lib) ==
  [n \in DOMAIN m \cup (Range(names) \cap lib) |->
     IF n \in DOMAIN m THEN m[n] ELSE Def(n, <<"installed", "">>, NullLoc)]

\* make_chemcomp_with_restraints(*res): restraints from one residue's atoms
MakeChemcompWithRestraints(model, loc) ==
  Def(ResAt(model, loc).name, <<"adhoc", "">>, loc)

KeepAll(names, m) == names

\* vector_remove_if(needed, [&](s) { return monlib.monomers.count(s); })
RemoveDefined(names, m) ==
  SelectSeq(names, LAMBDA s : s \notin DOMAIN m)

\* the name list handed to read_monomer_lib
NamesToQuery(v, model, m) ==
  IF v = "prog" THEN RemoveDefined(AllResidueNames(model), m)
  ELSE AllResidueNames(model)

----------------------------------------------------------------------------
(* Connections and contacts *)

\* make_address(chain, residue, atom)
MakeAddress(model, cra) ==
  LET chain == model[cra[1]]
      residue == chain.residues[cra[2]]
  IN [chain |-> chain.name, res |-> <<residue.name, residue.seqid>>,
      atom |-> residue.atoms[cra[3]].name]

Connection(name, asu, p1, p2, dist_sq) ==
  [name |-> name, type |-> "Covale", asu |-> asu,
   partner1 |-> p1, partner2 |-> p2, dist_sq |-> dist_sq]

\* Structure::find_connection_by_cra: a connection between the two atoms,
\* in either order
FindConnectionByCra(conns, model, cra1, cra2) ==
  \E i \in 1..Len(conns) :
    LET c == conns[i]
        a1 == MakeAddress(model, cra1)
        a2 == MakeAddress(model, cra2)
    IN \/ (c.partner1 = a1 /\ c.partner2 = a2)
       \/ (c.partner1 = a2 /\ c.partner2 = a1)

AtomAt(model, cra) == model[cra[1]].residues[cra[2]].atoms[cra[3]]

\* the atoms of the model in traversal order
AtomCras(model) ==
  Flatten(Flatten(
    [ci \in 1..Len(model) |->
       [ri \in 1..Len(model[ci].residues) |->
          [ai \in 1..Len(model[ci].residues[ri].atoms) |-> <<ci, ri, ai>>]]]))

\* the closest image of atom b to atom a in the periodic cell:
\* <<image_idx, distance>>
ClosestImage(a, b) ==
  LET d0 == Abs(a.pos - b.pos)
      d1 == CellLen - d0
  IN IF d0 <= d1 THEN <<0, d0>> ELSE <<1, d1>>

\* ContactSearch::Ignore::AdjacentResidues: the same or neighbouring residues
\* of one chain
AdjacentResidues(cra1, cra2) ==
  cra1[1] = cra2[1] /\ Abs(cra1[2] - cra2[2]) <= 1

\* NeighborSearch(model, cell, 5.0) with ContactSearch(3.5): each unordered
\* pair of atoms once, with its closest image, in traversal order
ForEachContact(model) ==
  LET cras == AtomCras(model)
      n == Len(cras)
      pairs == Flatten([i \in 1..n |-> [k \in 1..(n - i) |-> <<i, i + k>>]])
      near(p) ==
        LET im == ClosestImage(AtomAt(model, cras[p[1]]), AtomAt(model, cras[p[2]]))
        IN /\ ~AdjacentResidues(cras[p[1]], cras[p[2]])
           /\ Sq(im[2]) <= Sq(SearchRadius)
           /\ Sq(im[2]) <= Sq(ContactCutoff)
      kept == SelectSeq(pairs, near)
  IN [i \in 1..Len(kept) |->
        LET im == ClosestImage(AtomAt(model, cras[kept[i][1]]),
                               AtomAt(model, cras[kept[i][2]]))
        IN [cra1 |-> cras[kept[i][1]], cra2 |-> cras[kept[i][2]],
            image_idx |-> im[1], dist_sq |-> Sq(im[2])]]

TooFarStrict(dist_sq, r1, r2) == dist_sq >= Sq((r1 + r2) + Margin)

\* dist_sq > sq((r1 + r2) + 0.5)
TooFar(dist_sq, r1, r2) == dist_sq > Sq((r1 + r2) + Margin)

\* "added" + std::to_string(n)
AddedName(n) == <<"added", n>>

ReplaceLast(conns, conn) ==
  IF conns = <<>> THEN <<conn>>
  ELSE [conns EXCEPT ![Len(conns)] = conn]

\* st.connections.push_back(conn)
PushBack(conns, conn) == Append(conns, conn)

AlwaysNew(conns, model, cra1, cra2) == FALSE

\* if (st.find_connection_by_cra(cra1, cra2)) return;
AlreadyConnected(conns, model, cra1, cra2) ==
  FindConnectionByCra(conns, model, cra1, cra2)

----------------------------------------------------------------------------
(* Inputs of the whole-program specification *)

\* a one-chain model with one atom per residue, the residues 1 Angstrom apart
CaModel(names) ==
  <<Chain("A", [i \in 1..Len(names) |->
                  Residue(names[i], i, <<Atom("CA", 2, 2 * (i - 1))>>)])>>

\* the connections read from the input file: a LINK between the first two
\* residues, when there are two
PrepConnections(model) ==
  IF Len(model[1].residues) >= 2
  THEN <<Connection(<<"link", 1>>, "Same", MakeAddress(model, <<1, 1, 1>>),
                    MakeAddress(model, <<1, 2, 1>>), 4)>>
  ELSE <<>>

\* src/prep.cpp reads one --libin file and has no --low option
InputSets(v, conns) ==
  {o \in [libs : SeqsUpTo(UserFiles, 0, MaxLibOpts),
          lows : SeqsUpTo(UserFiles, 0, MaxLibOpts),
          autoLigand : BOOLEAN, autoLink : BOOLEAN,
          conns : {conns}] :
     /\ Len(o.libs) + Len(o.lows) <= MaxLibOpts
     /\ v = "src" => (Len(o.libs) <= 1 /\ o.lows = <<>>)}

InitCommon ==
  /\ ok = TRUE
  /\ error = {}
  /\ printed = {}
  /\ idx = 1
  /\ contacts = <<>>
  /\ counter = 0
  /\ pass = 0
  /\ exitCode = -1
  /\ written = FALSE
  /\ query = ""
  /\ found = NullLoc

\* the state of main when `MonLib monlib;` has been constructed
Init ==
  /\ variant \in {"prog", "src"}
  /\ clibd \in SUBSET InstalledNames
  /\ \E names \in SeqsUpTo(Names, 1, MaxRes) : model0 = CaModel(names)
  /\ input \in InputSets(variant, PrepConnections(model0))
  /\ connections = input.conns
  /\ monomers = << >>
  /\ needed = <<>>
  /\ queried = <<>>
  /\ pc = "libs"
  /\ InitCommon

----------------------------------------------------------------------------
(* main *)

UserLibReversed(libs, i) == libs[Len(libs) + 1 - i]

\* for (opt = p.options[Libin]; opt; opt = opt->next()): the i-th option
UserLib(libs, i) == libs[i]

\* read_user_file(opt->arg) for the next --lib option (--libin in src); the
\* file is taken to be readable
ReadUserLib ==
  /\ pc = "libs"
  /\ idx <= Len(input.libs)
  /\ monomers' = ReadMonomerDoc(monomers, "lib", UserLib(input.libs, idx))
  /\ idx' = idx + 1
  /\ UNCHANGED <<variant, input, clibd, model0, needed, queried, ok, error,
                 printed, connections, contacts, counter, pass, pc, exitCode,
                 written, query, found>>

\* get_all_residue_names, vector_remove_if (prog), read_monomer_lib and, in
\* prog, the printing of its error string
ReadInstalledLib ==
  /\ pc = "libs"
  /\ idx > Len(input.libs)
  /\ LET names == NamesToQuery(variant, model0, monomers)
         errs == MonomerLibErrors(monomers, names, clibd)
     IN /\ needed' = names
        /\ queried' = names
        /\ monomers' = ReadMonomerLib(monomers, names, clibd)
        /\ error' = errs
        /\ ok' = (errs = {})
        /\ printed' = IF variant = "prog"
                      THEN printed \cup {<<"error", n>> : n \in errs}
                      ELSE printed
  /\ pc' = "lows"
  /\ idx' = 1
  /\ UNCHANGED <<variant, input, clibd, model0, connections, contacts, counter,
                 pass, exitCode, written, query, found>>

\* read_user_file(opt->arg) for the next --low option
ReadLowLib ==
  /\ pc = "lows"
  /\ idx <= Len(input.lows)
  /\ monomers' = ReadMonomerDoc(monomers, "low", UserLib(input.lows, idx))
  /\ idx' = idx + 1
  /\ UNCHANGED <<variant, input, clibd, model0, needed, queried, ok, error,
                 printed, connections, contacts, counter, pass, pc, exitCode,
                 written, query, found>>

NeverFail(o) == TRUE

\* bool make_new_ligands = p.is_yes(AutoLigand, false)
MakeNewLigands(o) == o.autoLigand

\* prog: the second vector_remove_if and `if (!needed.empty())`;
\* src: `if (!ok)`.  Then the diagnostics and fail() or the start of the
\* synthesis loop.  fail() throws; main's catch prints ERROR and returns 1.
\* src prints its warning about ad-hoc restraints before the loop.
CheckNeeded ==
  /\ pc = "lows"
  /\ idx > Len(input.lows)
  /\ LET left == IF variant = "prog" THEN RemoveDefined(needed, monomers)
                 ELSE needed
         missing == IF variant = "prog" THEN left /= <<>> ELSE ~ok
         lines == IF variant = "prog"
                  THEN {<<"warning", n>> : n \in Range(left)}
                  ELSE {<<"error", n>> : n \in error}
     IN /\ needed' = left
        /\ IF ~missing
           THEN /\ pc' = "cis"
                /\ UNCHANGED <<printed, exitCode>>
           ELSE IF ~MakeNewLigands(input)
           THEN /\ pc' = "failed"
                /\ printed' = printed \cup lines \cup {<<"fatal", "">>}
                /\ exitCode' = 1
           ELSE /\ pc' = "synth"
                /\ printed' = printed \cup lines \cup
                                (IF variant = "src" THEN {<<"adhoc", "">>} ELSE {})
                /\ UNCHANGED exitCode
  /\ idx' = 1
  /\ UNCHANGED <<variant, input, clibd, model0, monomers, queried, ok, error,
                 connections, contacts, counter, pass, written, query, found>>

IsDefined(m, name) == name \in DOMAIN m

\* monlib.monomers.find(name) == monlib.monomers.end()
NotDefined(m, name) == name \notin DOMAIN m

\* one iteration of `for (const std::string& name : needed)`
SynthesizeOne ==
  /\ pc = "synth"
  /\ idx <= Len(needed)
  /\ LET name == needed[idx]
         res == find_most_complete_residue(name, model0)
     IN monomers' = IF NotDefined(monomers, name) /\ res /= NullLoc
                    THEN Emplace(monomers, name,
                                 MakeChemcompWithRestraints(model0, res))
                    ELSE monomers
  /\ idx' = idx + 1
  /\ UNCHANGED <<variant, input, clibd, model0, needed, queried, ok, error,
                 printed, connections, contacts, counter, pass, pc, exitCode,
                 written, query, found>>

\* the end of the loop; prog prints its warning about ad-hoc restraints here
SynthesizeDone ==
  /\ pc = "synth"
  /\ idx > Len(needed)
  /\ printed' = IF variant = "prog" THEN printed \cup {<<"adhoc", "">>}
                ELSE printed
  /\ pc' = "cis"
  /\ UNCHANGED <<variant, input, clibd, model0, monomers, needed, queried, ok,
                 error, idx, connections, contacts, counter, pass, exitCode,
                 written, query, found>>

\* assign_cis_flags, when --auto-cis is on (no effect on the monomers or
\* connections), and `if (p.is_yes(AutoLink, false))`
AssignCis ==
  /\ pc = "cis"
  /\ pc' = IF input.autoLink THEN "link" ELSE "topology"
  /\ UNCHANGED <<variant, input, clibd, model0, monomers, needed, queried, ok,
                 error, printed, idx, connections, contacts, counter, pass,
                 exitCode, written, query, found>>

\* assign_connections up to the first callback: ns.populate(), counter = 0.
\* prog calls the library's add_automatic_links here, which is taken to be
\* the same pass.
StartLinks ==
  /\ pc = "link"
  /\ contacts' = ForEachContact(model0)
  /\ counter' = 0
  /\ pass' = pass + 1
  /\ pc' = "visit"
  /\ UNCHANGED <<variant, input, clibd, model0, monomers, needed, queried, ok,
                 error, printed, idx, connections, exitCode, written, query,
                 found>>

\* the callback of for_each_contact on the next contact
VisitContact ==
  /\ pc = "visit"
  /\ contacts /= <<>>
  /\ LET c == Head(contacts)
         r1 == AtomAt(model0, c.cra1).r
         r2 == AtomAt(model0, c.cra2).r
     IN IF \/ TooFar(c.dist_sq, r1, r2)
           \/ AlreadyConnected(connections, model0, c.cra1, c.cra2)
        THEN UNCHANGED <<connections, counter, printed>>
        ELSE /\ counter' = counter + 1
             /\ connections' =
                  PushBack(connections,
                           Connection(AddedName(counter + 1),
                                      IF c.image_idx = 0 THEN "Same"
                                      ELSE "Different",
                                      MakeAddress(model0, c.cra1),
                                      MakeAddress(model0, c.cra2),
                                      c.dist_sq))
             /\ printed' = printed \cup {<<"link", AddedName(counter + 1)>>}
  /\ contacts' = Tail(contacts)
  /\ UNCHANGED <<variant, input, clibd, model0, monomers, needed, queried, ok,
                 error, idx, pass, pc, exitCode, written, query, found>>

\* for_each_contact returns
LinksDone ==
  /\ pc = "visit"
  /\ contacts = <<>>
  /\ pc' = "topology"
  /\ UNCHANGED <<variant, input, clibd, model0, monomers, needed, queried, ok,
                 error, printed, idx, connections, contacts, counter, pass,
                 exitCode, written, query, found>>

\* prepare_topology and prepare_refmac_crd
PrepareTopology ==
  /\ pc = "topology"
  /\ pc' = "write"
  /\ UNCHANGED <<variant, input, clibd, model0, monomers, needed, queried, ok,
                 error, printed, idx, connections, contacts, counter, pass,
                 exitCode, written, query, found>>

\* write_cif_to_stream and `return 0`
WriteOutput ==
  /\ pc = "write"
  /\ written' = TRUE
  /\ exitCode' = 0
  /\ pc' = "done"
  /\ UNCHANGED <<variant, input, clibd, model0, monomers, needed, queried, ok,
                 error, printed, idx, connections, contacts, counter, pass,
                 query, found>>

Next ==
  \/ ReadUserLib
  \/ ReadInstalledLib
  \/ ReadLowLib
  \/ CheckNeeded
  \/ SynthesizeOne
  \/ SynthesizeDone
  \/ AssignCis
  \/ StartLinks
  \/ VisitContact
  \/ LinksDone
  \/ PrepareTopology
  \/ WriteOutput

Spec == Init /\ [][Next]_vars

----------------------------------------------------------------------------
(* Link detection on its own: assign_connections run on a structure whose
   monomers the installed library provided, and run again on the structure
   it left *)

\* three atoms as three chains, as three residues of one chain, and as a
\* two-atom residue with a second chain; each entry is the atom counts of the
\* residues of a chain
LinkShapes ==
  {<< <<1>>, <<1>>, <<1>> >>, << <<1, 1, 1>> >>, << <<2>>, <<1>> >>}

\* number of atoms before residue ri of chain ci
AtomsBefore(shape, ci, ri) ==
  LET counts == Flatten(SubSeq(shape, 1, ci - 1)) \o SubSeq(shape[ci], 1, ri - 1)
      sum[i \in 0..Len(counts)] == IF i = 0 THEN 0 ELSE sum[i - 1] + counts[i]
  IN sum[Len(counts)]

LinkModel(shape, pos, rad) ==
  [ci \in 1..Len(shape) |->
     Chain(ChainNames[ci],
           [ri \in 1..Len(shape[ci]) |->
              Residue("LIG", ri,
                      [ai \in 1..shape[ci][ri] |->
                         LET k == AtomsBefore(shape, ci, ri) + ai
                         IN Atom(AtomNames[ai], rad[k], pos[k])])])]

\* the connections of the input: none, a disulfide between the first two
\* atoms, or a connection named added1 between them, written the other way
LinkConnections(model) ==
  LET cras == AtomCras(model)
      a1 == MakeAddress(model, cras[1])
      a2 == MakeAddress(model, cras[2])
  IN {<<>>,
      <<Connection(<<"disulf", 1>>, "Same", a1, a2, 16)>>,
      <<Connection(<<"added", 1>>, "Same", a2, a1, 16)>>}

InitLinks ==
  /\ variant = "src"
  /\ clibd = Names
  /\ \E shape \in LinkShapes, pos \in [1..3 -> 0..MaxPos], rad \in [1..3 -> Radii] :
       model0 = LinkModel(shape, pos, rad)
  /\ input \in {[libs |-> <<>>, lows |-> <<>>, autoLigand |-> FALSE,
                 autoLink |-> TRUE, conns |-> c] :
                  c \in LinkConnections(model0)}
  /\ connections = input.conns
  /\ needed = AllResidueNames(model0)
  /\ queried = needed
  /\ monomers = ReadMonomerLib(<< >>, needed, clibd)
  /\ pc = "link"
  /\ InitCommon

\* the caller runs link detection once more on the same structure
RunAgain ==
  /\ pc = "visit"
  /\ contacts = <<>>
  /\ pass < MaxPasses
  /\ pc' = "link"
  /\ UNCHANGED <<variant, input, clibd, model0, monomers, needed, queried, ok,
                 error, printed, idx, connections, contacts, counter, pass,
                 exitCode, written, query, found>>

NextLinks ==
  \/ StartLinks
  \/ VisitContact
  \/ RunAgain

SpecLinks == InitLinks /\ [][NextLinks]_vars

----------------------------------------------------------------------------
(* Template selection on its own: find_most_complete_residue applied to a
   model and a name *)

FindNames == {"ALA", "LIG"}

\* a residue with n atoms
PlainResidue(name, seqid, n) ==
  Residue(name, seqid, [ai \in 1..n |-> Atom(AtomNames[ai], 1, ai - 1)])

\* the residues rs (name and atom count) as two chains, the first `split`
\* residues in chain A
FindModel(rs, split) ==
  <<Chain("A", [i \in 1..split |-> PlainResidue(rs[i][1], i, rs[i][2])]),
    Chain("B", [i \in 1..(Len(rs) - split) |->
                  PlainResidue(rs[split + i][1], i, rs[split + i][2])])>>

InitFind ==
  /\ variant = "prog"
  /\ clibd = {}
  /\ \E rs \in SeqsUpTo(FindNames \X (0..MaxAtoms), 0, MaxFindRes) :
       \E split \in 0..Len(rs) : model0 = FindModel(rs, split)
  /\ input = [libs |-> <<>>, lows |-> <<>>, autoLigand |-> TRUE,
              autoLink |-> FALSE, conns |-> <<>>]
  /\ connections = <<>>
  /\ monomers = << >>
  /\ needed = <<>>
  /\ queried = <<>>
  /\ pc = "find"
  /\ InitCommon

FindTemplate ==
  /\ pc = "find"
  /\ \E name \in FindNames :
       /\ query' = name
       /\ found' = find_most_complete_residue(name, model0)
  /\ pc' = "found"
  /\ UNCHANGED <<variant, input, clibd, model0, monomers, needed, queried, ok,
                 error, printed, idx, connections, contacts, counter, pass,
                 exitCode, written>>

NextFind == FindTemplate

SpecFind == InitFind /\ [][NextFind]_vars

----------------------------------------------------------------------------
(* Properties of monomer resolution and synthesis (specification Spec) *)

ModelNames == Range(AllResidueNames(model0))

\* positions of the --lib options whose file defines name
OverridesOf(name) ==
  {i \in 1..Len(input.libs) : name \in FileDefs(input.libs[i])}

Least(S) == CHOOSE x \in S : \A y \in S : x <= y

\* model residue names without a definition
Unmet == {n \in ModelNames : n \notin DOMAIN monomers}

AdhocNames == {n \in DOMAIN monomers : monomers[n].from[1] = "adhoc"}

\* C1: once the override libraries are loaded, and so when resolution
\* finishes, every name an override library defines has the definition of the
\* earliest --lib option that defines it; the installed library and the --low
\* libraries do not replace it.
C1_ResolutionPriority ==
  pc /= "libs" =>
    \A n \in Names :
      OverridesOf(n) /= {} =>
        /\ n \in DOMAIN monomers
        /\ monomers[n].from = <<"lib", input.libs[Least(OverridesOf(n))]>>

\* a finished run in which a residue name of the model is defined by two
\* different override libraries and by the installed library
C1_Witness ==
  /\ pc = "done"
  /\ \E n \in ModelNames :
       /\ n \in clibd
       /\ Cardinality({input.libs[i] : i \in OverridesOf(n)}) = 2

\* the names the diagnostics list as missing: the WARNING lines of prog, the
\* error string of src
ReportedMissing ==
  {n \in Names :
     <<IF variant = "prog" THEN "warning" ELSE "error", n>> \in printed}

\* C2: with --auto-ligand off, a residue name left without a definition after
\* overrides, installed library and fallback libraries makes the run fail:
\* the missing names are all reported, nothing is synthesized, link detection
\* and the topology builder are not started and no output is written.
C2_AbortOnMissing ==
  (~input.autoLigand /\ pc \notin {"libs", "lows"} /\ Unmet /= {}) =>
    /\ pc = "failed"
    /\ exitCode = 1
    /\ <<"fatal", "">> \in printed
    /\ ReportedMissing = Unmet
    /\ AdhocNames = {}
    /\ pass = 0
    /\ connections = input.conns
    /\ ~written

\* a failed run with two missing names and one resolved name
C2_Witness ==
  /\ pc = "failed"
  /\ ~input.autoLigand
  /\ Cardinality(Unmet) = 2
  /\ ModelNames \ Unmet /= {}

\* C3: when the topology builder is reached, every residue name of the model
\* has a definition, and an ad-hoc definition is derived from a residue of
\* that name.
C3_TopologyHasAllDefinitions ==
  pc \in {"topology", "write", "done"} =>
    \A n \in ModelNames :
      /\ n \in DOMAIN monomers
      /\ monomers[n].name = n
      /\ monomers[n].from[1] = "adhoc" =>
           /\ monomers[n].tmpl \in Range(ResidueLocs(model0))
           /\ ResAt(model0, monomers[n].tmpl).name = n

\* the topology builder reached with a library definition and an ad-hoc one
C3_Witness ==
  /\ pc = "topology"
  /\ AdhocNames /= {}
  /\ \E n \in ModelNames : monomers[n].from[1] = "installed"

\* The synthesis loop never meets a name without a template residue: the
\* names it visits are residue names of the model.
TemplateAlwaysExists ==
  pc = "synth" =>
    \A i \in 1..Len(needed) :
      find_most_complete_residue(needed[i], model0) /= NullLoc

IsPrefix(s, t) == Len(s) <= Len(t) /\ SubSeq(t, 1, Len(s)) = s

\* C7: every step of the run keeps every monomer definition and every
\* connection there was, the connections in their order.
C7_MonotonicGrowth ==
  [][/\ \A n \in DOMAIN monomers :
          n \in DOMAIN monomers' /\ monomers'[n] = monomers[n]
     /\ IsPrefix(connections, connections')]_vars

\* a finished run that loaded an override, synthesized a definition and added
\* a link to the connection of the input
C7_Witness ==
  /\ pc = "done"
  /\ AdhocNames /= {}
  /\ \E n \in DOMAIN monomers : monomers[n].from[1] = "lib"
  /\ input.conns /= <<>>
  /\ Len(connections) > Len(input.conns)

\* model residue names still undefined when the override libraries are loaded
UnresolvedAfterOverrides ==
  SelectSeq(AllResidueNames(model0), LAMBDA s : OverridesOf(s) = {})

\* C9 as stated: read_monomer_lib is passed exactly the residue names of the
\* model that the override libraries left undefined.
C9_QueriedExactlyUnresolved ==
  pc /= "libs" => queried = UnresolvedAfterOverrides

\* C9 amended: every residue name of the model that the override libraries
\* left undefined is passed to read_monomer_lib; prog passes exactly those
\* names, src passes every residue name of the model.
C9_QueriedCoversUnresolved ==
  pc /= "libs" =>
    /\ Range(UnresolvedAfterOverrides) \subseteq Range(queried)
    /\ variant = "prog" => queried = UnresolvedAfterOverrides
    /\ variant = "src" => queried = AllResidueNames(model0)

\* prog has queried the installed library with a name left out, because an
\* override library defined it, and a name left in
C9_Witness ==
  /\ pc = "lows"
  /\ variant = "prog"
  /\ queried /= <<>>
  /\ \E n \in ModelNames : OverridesOf(n) /= {}

----------------------------------------------------------------------------
(* Properties of link detection (specification SpecLinks) *)

EndOfPass == pc = "visit" /\ contacts = <<>>

\* pairs of atoms of the model, in traversal order
AtomPairs ==
  LET cras == AtomCras(model0)
  IN UNION {{<<cras[i], cras[j]>> : j \in (i + 1)..Len(cras)} : i \in 1..Len(cras)}

Linked(conns, p) == FindConnectionByCra(conns, model0, p[1], p[2])

Dist(p) == ClosestImage(AtomAt(model0, p[1]), AtomAt(model0, p[2]))[2]

Threshold(p) == AtomAt(model0, p[1]).r + AtomAt(model0, p[2]).r + Margin

\* not of adjacent residues of one chain, and without a connection in the input
Candidates ==
  {p \in AtomPairs : ~AdjacentResidues(p[1], p[2]) /\ ~Linked(input.conns, p)}

NoDuplicatePairs(conns) ==
  \A i, j \in 1..Len(conns) :
    i /= j => ~(\/ (conns[i].partner1 = conns[j].partner1
                    /\ conns[i].partner2 = conns[j].partner2)
                \/ (conns[i].partner1 = conns[j].partner2
                    /\ conns[i].partner2 = conns[j].partner1))

\* C4: a second pass of link detection over the structure the first pass left
\* adds no connection, and no pair of atoms ever has two connections.
C4_NoDuplicateLinks ==
  [][/\ pass >= 2 => connections' = connections
     /\ NoDuplicatePairs(connections')]_vars

\* the second pass is over, the first had added two links, and the input had
\* a connection between two atoms within the link threshold
C4_Witness ==
  /\ pass = 2
  /\ EndOfPass
  /\ Len(connections) >= Len(input.conns) + 2
  /\ \E p \in AtomPairs :
       /\ Linked(input.conns, p)
       /\ ~AdjacentResidues(p[1], p[2])
       /\ Dist(p) <= Threshold(p)

\* C5 as stated: after a pass a candidate pair is linked when its distance is
\* at most r1 + r2 + 0.5, and is not linked when its distance is larger.
C5_ThresholdDecides ==
  EndOfPass =>
    \A p \in Candidates :
      Linked(connections, p) <=> Sq(Dist(p)) <= Sq(Threshold(p))

\* C5 amended: after a pass a candidate pair is linked when its distance is at
\* most r1 + r2 + 0.5 and at most the contact cutoff 3.5, and is not linked
\* otherwise.
C5_ThresholdWithinCutoff ==
  EndOfPass =>
    \A p \in Candidates :
      Linked(connections, p) <=>
        (Sq(Dist(p)) <= Sq(Threshold(p)) /\ Dist(p) <= ContactCutoff)

\* a pass has linked a pair at exactly the threshold and left unlinked a pair
\* one step beyond its threshold
C5_Witness ==
  /\ EndOfPass
  /\ \E p \in Candidates : Dist(p) = Threshold(p) /\ Linked(connections, p)
  /\ \E p \in Candidates :
       /\ Dist(p) = Threshold(p) + 1
       /\ Dist(p) <= ContactCutoff
       /\ ~Linked(connections, p)

\* C10: the connections of the structure have pairwise different names.
C10_UniqueNames ==
  \A i, j \in 1..Len(connections) :
    i /= j => connections[i].name /= connections[j].name

----------------------------------------------------------------------------
(* Properties of template selection (specification SpecFind) *)

\* positions, in traversal order, of the residues named as the query
Named ==
  {i \in 1..Len(ResidueLocs(model0)) :
     ResAt(model0, ResidueLocs(model0)[i]).name = query}

AtomCount(i) == Len(ResAt(model0, ResidueLocs(model0)[i]).atoms)

\* C6: find_most_complete_residue returns the first residue, in chain then
\* residue order, among the residues of that name with the most atoms, and no
\* residue exactly when the model has none of that name.
C6_TemplateSelection ==
  pc = "found" =>
    IF Named = {} THEN found = NullLoc
    ELSE \E i \in Named :
           /\ found = ResidueLocs(model0)[i]
           /\ \A j \in Named :
                /\ AtomCount(j) <= AtomCount(i)
                /\ AtomCount(j) = AtomCount(i) => i <= j

\* the residue returned is not the first of its name, and a later residue of
\* that name has as many atoms
C6_Witness ==
  /\ pc = "found"
  /\ found /= NullLoc
  /\ \E i, j, k \in Named :
       /\ i < j /\ j < k
       /\ found = ResidueLocs(model0)[j]
       /\ AtomCount(k) = AtomCount(j)

====
